---------------------------- MODULE Spec2Model ----------------------------
(***************************************************************************)
(* archlib: the validation engine of an executable-architecture checker.   *)
(*                                                                         *)
(* The declared graph (Goals, Solutions, Implementations) is the input of  *)
(* the checks of archlib/validation.py.  Each check is a function from the *)
(* three supplied lists to an ordered list of error messages.  The model   *)
(* draws the lists from bounded sets in the initial state and applies one  *)
(* check per behaviour; `errors` then holds the list the check returned.   *)
(*                                                                         *)
(* An entity reference (Solution.satisfies, Solution.requires,             *)
(* Implementation.implements) is only ever read through the referenced     *)
(* object's id, so a reference is modelled by that id.                     *)
(*                                                                         *)
(* An error message is modelled by the record of the values its f-string   *)
(* interpolates: kind names the message template, subject and object the   *)
(* ids it mentions, cycle the arrow-joined id sequence of a "Circular      *)
(* dependency detected" message, symbols the sorted list of a "missing     *)
(* symbols" message.                                                       *)
(*                                                                         *)
(* The inventory checks also read the project directory.  `disk` maps each *)
(* path that exists under the root to what the symbol extractors return on *)
(* the file, `listing` holds those paths in the order os.walk lists them   *)
(* (the order of the entries of one directory is the file system's), and   *)
(* `root_abs` holds the segments of the root's absolute path.  A path is   *)
(* modelled by its string; Tree tabulates the directories, stem and        *)
(* extension os.path computes from that string.                            *)
(*                                                                         *)
(* `outcome` tells how a call of Architecture.validate ended: by returning *)
(* True or by sys.exit(1).  `history` keeps the lists of earlier runs when *)
(* a behaviour runs a check more than once.                                *)
(*                                                                         *)
(* The symbol extractors of archlib/parsing are applied to `source`, a     *)
(* file given by its extension and its text; `tree_sitter` tells whether   *)
(* the tree_sitter package can be imported, and `extracted` holds what the *)
(* extractor returned or that it raised ValueError.  The text of a         *)
(* JavaScript file is a sequence of declarations, one per line; the text   *)
(* of a Python file is a sequence of simple statements, each with the      *)
(* compound statements that enclose it.                                    *)
(***************************************************************************)
EXTENDS Naturals, Sequences, FiniteSets, TLC

VARIABLES goals, solutions, implementations, disk, listing, root_abs, called,
          errors, outcome, history, source, tree_sitter, extracted

vars == <<goals, solutions, implementations, disk, listing, root_abs, called,
          errors, outcome, history, source, tree_sitter, extracted>>

----------------------------------------------------------------------------
(* Bounds of the explored inputs.                                          *)

\* ids a supplied Solution (or a reference to one) may carry
SolutionIds == {"S1", "S2", "S3"}

\* ids a supplied Goal (or a reference to one) may carry
GoalIds == {"G1", "G2"}

\* ids of the supplied Implementations
ImplementationIds == {"I1", "I2"}

\* most requires entries over all supplied Solutions together
MaxRequiresTotal == 4

\* most satisfies entries over all supplied Solutions together
MaxSatisfiesTotal == 3

----------------------------------------------------------------------------
(* Generic helpers.                                                        *)

Range(s) == {s[i] : i \in DOMAIN s}

\* all sequences over S of length at most n
SeqsUpTo(S, n) == UNION {[1..k -> S] : k \in 0..n}

\* all sequences over S without repeated elements
DistinctSeqs(S) == {s \in SeqsUpTo(S, Cardinality(S)) :
                      \A i, j \in DOMAIN s : i # j => s[i] # s[j]}

----------------------------------------------------------------------------
(* Source files and extraction results: archlib/parsing.                   *)

\* A source file: its extension, whether its bytes decode as UTF-8, and
\* its text as a sequence of declarations, one per line.
SourceFile(ext, decodable, items) ==
    [ext |-> ext, decodable |-> decodable, items |-> items]

\* no file is handed to an extractor
NoSource == SourceFile("", TRUE, <<>>)

\* What a parsing function hands back: the dict of the three symbol sets
\* ("symbols"), None ("none"), or a raised ValueError ("raised").
Result(status, classes, functions, globals) ==
    [status |-> status, classes |-> classes, functions |-> functions,
     globals |-> globals]

\* None
NoResult == Result("none", {}, {}, {})

\* raise ValueError(f"Failed to parse {file_path}: {e}")
Raised == Result("raised", {}, {}, {})

----------------------------------------------------------------------------
(* Graph model: archlib/nodes.py.                                          *)

Goal(id_tag, acceptance_test) ==
    [id |-> id_tag, acceptance_test |-> acceptance_test]

Solution(id_tag, satisfies, requires) ==
    [id |-> id_tag, satisfies |-> satisfies, requires |-> requires]

Implementation(id_tag, implements, code_files, test_files, must_define) ==
    [id |-> id_tag, implements |-> implements, code_files |-> code_files,
     test_files |-> test_files, must_define |-> must_define]

----------------------------------------------------------------------------
(* Error messages.                                                         *)

Err(kind, subject, object) ==
    [kind |-> kind, subject |-> subject, object |-> object, cycle |-> <<>>,
     symbols |-> <<>>]

\* f"{impl.id} implements {sol.id} which doesn't exist"
ImplementsMissing(impl_id, sol_id) == Err("implements_missing", impl_id, sol_id)

\* f"{sol_obj.id} satisfies no goals (orphaned solution)"
OrphanedSolution(sol_id) == Err("orphaned_solution", sol_id, "")

\* f"{sol_obj.id} satisfies {goal.id} which doesn't exist"
SatisfiesMissing(sol_id, goal_id) == Err("satisfies_missing", sol_id, goal_id)

\* f"{goal_id} is not satisfied by any solution (orphaned goal)"
OrphanedGoal(goal_id) == Err("orphaned_goal", goal_id, "")

\* f"{sol_id} has no implementation (unimplemented solution)"
UnimplementedSolution(sol_id) == Err("unimplemented_solution", sol_id, "")

\* f"{sol.id} requires {req.id} which doesn't exist"
RequiresMissing(sol_id, req_id) == Err("requires_missing", sol_id, req_id)

\* f"Circular dependency detected: {' -> '.join(cycle)}"
CircularDependency(cycle) ==
    [kind |-> "circular", subject |-> "", object |-> "", cycle |-> cycle,
     symbols |-> <<>>]

----------------------------------------------------------------------------
(* validate_traceability.                                                  *)

\* variant: the first Solution carrying an id is kept
solution_map_first_wins(sols) ==
    [k \in {sols[i].id : i \in DOMAIN sols} |->
        sols[CHOOSE i \in DOMAIN sols :
                /\ sols[i].id = k
                /\ \A j \in DOMAIN sols : j < i => sols[j].id # k]]

\* {s.id: s for s in solutions}: a later Solution with the same id replaces
\* an earlier one.
solution_map(sols) ==
    [k \in {sols[i].id : i \in DOMAIN sols} |->
        sols[CHOOSE i \in DOMAIN sols :
                /\ sols[i].id = k
                /\ \A j \in DOMAIN sols : j > i => sols[j].id # k]]

\* the keys of {x.id: ... for x in xs} in iteration order: each id once, at
\* the place of its first occurrence
RECURSIVE dict_keys(_, _)
dict_keys(xs, i) ==
    IF i > Len(xs) THEN <<>>
    ELSE (IF \E j \in 1..(i - 1) : xs[j].id = xs[i].id THEN <<>> ELSE <<xs[i].id>>)
         \o dict_keys(xs, i + 1)

\* {g.id: g for g in goals}; only its key set is read
goal_map(gs) == {gs[i].id : i \in DOMAIN gs}

\* lines 35-37: every satisfied Goal that is not supplied, in order
RECURSIVE satisfies_errors(_, _, _)
satisfies_errors(sol_obj, gmap, j) ==
    IF j > Len(sol_obj.satisfies) THEN <<>>
    ELSE (IF sol_obj.satisfies[j] \notin gmap
          THEN <<SatisfiesMissing(sol_obj.id, sol_obj.satisfies[j])>>
          ELSE <<>>)
         \o satisfies_errors(sol_obj, gmap, j + 1)

\* implementation_errors saying nothing about an implements id that is not
\* supplied
implementation_errors_silent(impl, smap, gmap) ==
    IF impl.implements \notin DOMAIN smap
    THEN <<>>
    ELSE LET sol_obj == smap[impl.implements]
         IN  IF sol_obj.satisfies = <<>>
             THEN <<OrphanedSolution(sol_obj.id)>>
             ELSE satisfies_errors(sol_obj, gmap, 1)

\* lines 22-37: one pass of the loop over the Implementations
implementation_errors(impl, smap, gmap) ==
    IF impl.implements \notin DOMAIN smap
    THEN <<ImplementsMissing(impl.id, impl.implements)>>
    ELSE LET sol_obj == smap[impl.implements]
         IN  IF sol_obj.satisfies = <<>>
             THEN <<OrphanedSolution(sol_obj.id)>>
             ELSE satisfies_errors(sol_obj, gmap, 1)

RECURSIVE chain_errors(_, _, _, _)
chain_errors(impls, smap, gmap, k) ==
    IF k > Len(impls) THEN <<>>
    ELSE implementation_errors(impls[k], smap, gmap)
         \o chain_errors(impls, smap, gmap, k + 1)

\* the keys of a dict of flags whose flag is still False, in key order
RECURSIVE flagged_false(_, _, _)
flagged_false(keys, set_true, i) ==
    IF i > Len(keys) THEN <<>>
    ELSE (IF keys[i] \in set_true THEN <<>> ELSE <<keys[i]>>)
         \o flagged_false(keys, set_true, i + 1)

\* orphaned_goal_errors reading only the first entry of every satisfies
orphaned_goal_errors_first_only(sols, gs) ==
    LET satisfied == {sols[i].satisfies[1] : i \in {k \in DOMAIN sols : sols[k].satisfies # <<>>}}
        orphans   == flagged_false(dict_keys(gs, 1), satisfied, 1)
    IN  [i \in DOMAIN orphans |-> OrphanedGoal(orphans[i])]

\* lines 40-48: a Goal is satisfied when some supplied Solution lists its id
orphaned_goal_errors(sols, gs) ==
    LET satisfied == UNION {Range(sols[i].satisfies) : i \in DOMAIN sols}
        orphans   == flagged_false(dict_keys(gs, 1), satisfied, 1)
    IN  [i \in DOMAIN orphans |-> OrphanedGoal(orphans[i])]

\* unimplemented_solution_errors reading only the last Implementation
unimplemented_solution_errors_last_only(impls, sols) ==
    LET implemented == IF impls = <<>> THEN {} ELSE {impls[Len(impls)].implements}
        missing     == flagged_false(dict_keys(sols, 1), implemented, 1)
    IN  [i \in DOMAIN missing |-> UnimplementedSolution(missing[i])]

\* lines 51-58: a Solution is implemented when some Implementation's
\* implements carries its id
unimplemented_solution_errors(impls, sols) ==
    LET implemented == {impls[k].implements : k \in DOMAIN impls}
        missing     == flagged_false(dict_keys(sols, 1), implemented, 1)
    IN  [i \in DOMAIN missing |-> UnimplementedSolution(missing[i])]

\* the list validate_traceability(implementations, solutions, goals) returns
validate_traceability(impls, sols, gs) ==
    chain_errors(impls, solution_map(sols), goal_map(gs), 1)
    \o orphaned_goal_errors(sols, gs)
    \o unimplemented_solution_errors(impls, sols)

----------------------------------------------------------------------------
(* validate_dependencies.                                                  *)

\* the first loop: every requires entry whose id is not supplied, in order
RECURSIVE requires_errors_of(_, _, _)
requires_errors_of(sol, smap, j) ==
    IF j > Len(sol.requires) THEN <<>>
    ELSE (IF sol.requires[j] \notin DOMAIN smap
          THEN <<RequiresMissing(sol.id, sol.requires[j])>>
          ELSE <<>>)
         \o requires_errors_of(sol, smap, j + 1)

RECURSIVE requires_errors(_, _, _)
requires_errors(sols, smap, i) ==
    IF i > Len(sols) THEN <<>>
    ELSE requires_errors_of(sols[i], smap, 1) \o requires_errors(sols, smap, i + 1)

\* has_cycle's outcome, with the two sets it mutates in place:
\* found: a list was returned (None otherwise); members + closing: the
\* returned list is list(path) + [start_id].
NoCycle(visited, path) ==
    [found |-> FALSE, members |-> {}, closing |-> "", visited |-> visited, path |-> path]

CycleFound(visited, path, start_id) ==
    [found |-> TRUE, members |-> path, closing |-> start_id,
     visited |-> visited, path |-> path]

RECURSIVE has_cycle(_, _, _, _)
RECURSIVE has_cycle_requires(_, _, _, _, _)

\* lines 90-93: the loop over sol.requires, returning at the first cycle
has_cycle_requires(smap, reqs, j, visited, path) ==
    IF j > Len(reqs) THEN NoCycle(visited, path)
    ELSE LET cycle == has_cycle(smap, reqs[j], visited, path)
         IN  IF cycle.found THEN cycle
             ELSE has_cycle_requires(smap, reqs, j + 1, cycle.visited, cycle.path)

\* has_cycle with the two membership tests in the other order
has_cycle_visited_first(smap, start_id, visited, path) ==
    IF start_id \in visited THEN NoCycle(visited, path)
    ELSE IF start_id \in path THEN CycleFound(visited, path, start_id)
    ELSE LET visited1 == visited \cup {start_id}
             path1    == path \cup {start_id}
         IN  IF start_id \notin DOMAIN smap
             THEN NoCycle(visited1, path1 \ {start_id})
             ELSE LET r == has_cycle_requires(smap, smap[start_id].requires, 1,
                                              visited1, path1)
                  IN  IF r.found THEN r
                      ELSE NoCycle(r.visited, r.path \ {start_id})

\* has_cycle leaving an id that is not supplied on the path
has_cycle_keeps_missing(smap, start_id, visited, path) ==
    IF start_id \in path THEN CycleFound(visited, path, start_id)
    ELSE IF start_id \in visited THEN NoCycle(visited, path)
    ELSE LET visited1 == visited \cup {start_id}
             path1    == path \cup {start_id}
         IN  IF start_id \notin DOMAIN smap
             THEN NoCycle(visited1, path1)
             ELSE LET r == has_cycle_requires(smap, smap[start_id].requires, 1,
                                              visited1, path1)
                  IN  IF r.found THEN r
                      ELSE NoCycle(r.visited, r.path \ {start_id})

\* lines 76-96: depth-first search from start_id; visited and path are the
\* caller's sets, returned as has_cycle leaves them
has_cycle(smap, start_id, visited, path) ==
    IF start_id \in path THEN CycleFound(visited, path, start_id)
    ELSE IF start_id \in visited THEN NoCycle(visited, path)
    ELSE LET visited1 == visited \cup {start_id}
             path1    == path \cup {start_id}
         IN  IF start_id \notin DOMAIN smap
             THEN NoCycle(visited1, path1 \ {start_id})
             ELSE LET r == has_cycle_requires(smap, smap[start_id].requires, 1,
                                              visited1, path1)
                  IN  IF r.found THEN r
                      ELSE NoCycle(r.visited, r.path \ {start_id})

RECURSIVE cycle_roots(_, _, _, _)

\* cycle_roots with a visited set of its own for every root
cycle_roots_fresh_visited(sols, smap, i, visited) ==
    IF i > Len(sols) THEN <<>>
    ELSE LET cycle == has_cycle(smap, sols[i].id, {}, {})
         IN  (IF cycle.found THEN <<cycle>> ELSE <<>>)
             \o cycle_roots(sols, smap, i + 1, {})

\* lines 98-103: every not yet visited Solution is a DFS root with a fresh
\* path; the result is the sequence of cycles found, one per reporting root.
cycle_roots(sols, smap, i, visited) ==
    IF i > Len(sols) THEN <<>>
    ELSE IF sols[i].id \in visited THEN cycle_roots(sols, smap, i + 1, visited)
    ELSE LET cycle == has_cycle(smap, sols[i].id, visited, {})
         IN  (IF cycle.found THEN <<cycle>> ELSE <<>>)
             \o cycle_roots(sols, smap, i + 1, cycle.visited)

\* list(path): `path` is a set of str, whose iteration order depends on the
\* interpreter's per-process string hashing; any enumeration can come out.
list_of_set(S) == {s \in [1..Cardinality(S) -> S] : Range(s) = S}

\* the error lists line 103 can append for a sequence of found cycles
RECURSIVE circular_errors(_, _)
circular_errors(found, i) ==
    IF i > Len(found) THEN {<<>>}
    ELSE {<<CircularDependency(Append(l, found[i].closing))>> \o rest :
             l \in list_of_set(found[i].members),
             rest \in circular_errors(found, i + 1)}

\* the set of lists validate_dependencies(solutions) can return
validate_dependencies(sols) ==
    LET smap == solution_map(sols)
    IN  {requires_errors(sols, smap, 1) \o c :
            c \in circular_errors(cycle_roots(sols, smap, 1, {}), 1)}

----------------------------------------------------------------------------
(* The dependency check applied to bounded inputs.                         *)

\* n requires lists holding at most e entries in all
RECURSIVE RequiresAllocations(_, _)
RequiresAllocations(n, e) ==
    IF n = 0 THEN {<<>>}
    ELSE UNION {{<<l>> \o rest : l \in [1..k -> SolutionIds],
                                 rest \in RequiresAllocations(n - 1, e - k)} :
                   k \in 0..e}

\* Solution lists with pairwise distinct ids and no satisfies entries
InitDep ==
    /\ goals = <<>>
    /\ implementations = <<>>
    /\ disk = <<>>
    /\ listing = <<>>
    /\ root_abs = <<"home", "project">>
    /\ outcome = "none"
    /\ history = <<>>
    /\ source = NoSource
    /\ tree_sitter = FALSE
    /\ extracted = NoResult
    /\ \E ids \in DistinctSeqs(SolutionIds) :
          \E reqs \in RequiresAllocations(Len(ids), MaxRequiresTotal) :
             solutions = [i \in 1..Len(ids) |-> Solution(ids[i], <<>>, reqs[i])]
    /\ called = "none"
    /\ errors = <<>>

ValidateDependencies ==
    /\ called = "none"
    /\ called' = "validate_dependencies"
    /\ errors' \in validate_dependencies(solutions)
    /\ UNCHANGED <<goals, solutions, implementations, disk, listing, root_abs,
                 outcome, history, source, tree_sitter, extracted>>

NextDep == ValidateDependencies

SpecDep == InitDep /\ [][NextDep]_vars

----------------------------------------------------------------------------
(* The traceability check applied to bounded inputs.                       *)

\* n satisfies lists holding at most e entries in all
RECURSIVE SatisfiesAllocations(_, _)
SatisfiesAllocations(n, e) ==
    IF n = 0 THEN {<<>>}
    ELSE UNION {{<<l>> \o rest : l \in [1..k -> GoalIds],
                                 rest \in SatisfiesAllocations(n - 1, e - k)} :
                   k \in 0..e}

\* Goal, Solution and Implementation lists, each with pairwise distinct ids;
\* requires plays no part in this check
InitTrace ==
    /\ \E ids \in DistinctSeqs(GoalIds) :
          goals = [i \in 1..Len(ids) |-> Goal(ids[i], "tests/test_mod.py")]
    /\ \E ids \in DistinctSeqs(SolutionIds) :
          \E sat \in SatisfiesAllocations(Len(ids), MaxSatisfiesTotal) :
             solutions = [i \in 1..Len(ids) |-> Solution(ids[i], sat[i], <<>>)]
    /\ \E ids \in DistinctSeqs(ImplementationIds) :
          \E impl \in [1..Len(ids) -> SolutionIds] :
             implementations =
                [i \in 1..Len(ids) |->
                    Implementation(ids[i], impl[i], <<>>, <<>>, <<>>)]
    /\ disk = <<>>
    /\ listing = <<>>
    /\ root_abs = <<"home", "project">>
    /\ outcome = "none"
    /\ history = <<>>
    /\ source = NoSource
    /\ tree_sitter = FALSE
    /\ extracted = NoResult
    /\ called = "none"
    /\ errors = <<>>

ValidateTraceability ==
    /\ called = "none"
    /\ called' = "validate_traceability"
    /\ errors' = validate_traceability(implementations, solutions, goals)
    /\ UNCHANGED <<goals, solutions, implementations, disk, listing, root_abs,
                 outcome, history, source, tree_sitter, extracted>>

NextTrace == ValidateTraceability

SpecTrace == InitTrace /\ [][NextTrace]_vars

----------------------------------------------------------------------------
(* The project directory.                                                  *)

\* names the required-symbol lists and the extracted symbol sets draw on
Symbols == {"Bar", "Foo"}

\* the symbol names in the order sorted() gives a list of str
SymbolOrder == <<"Bar", "Foo">>

\* A file of the tree: the directories from the root down to it, its name
\* up to the last dot, and the extension os.path.splitext splits off.
File(dirs, stem, ext) == [dirs |-> dirs, stem |-> stem, ext |-> ext]

\* The files a project directory may hold.
Tree ==
    << File(<<>>, "mod", ".py"),
       File(<<>>, "data", ".txt"),
       File(<<"src">>, "app", ".tsx"),
       File(<<"src">>, "Util", ".JS"),
       File(<<"src", "examples">>, "deep", ".js"),
       File(<<"tests">>, "test_mod", ".py"),
       File(<<"examples">>, "demo", ".py"),
       File(<<".git">>, "hook", ".py"),
       File(<<"__pycache__">>, "mod", ".py"),
       File(<<"node_modules">>, "lib", ".jsx"),
       File(<<".venv">>, "site", ".py"),
       File(<<"venv">>, "site", ".py") >>

\* os.path.join of path segments
RECURSIVE join(_)
join(parts) ==
    IF Len(parts) = 1 THEN parts[1]
    ELSE parts[1] \o "/" \o join(Tail(parts))

\* os.path.normpath(rel_path).split(os.sep)
path_parts(f) == Append(f.dirs, f.stem \o f.ext)

\* os.path.relpath(os.path.join(root, file), root_dir)
rel_path(f) == join(path_parts(f))

\* the file of the tree a relative path names
FileAt(path) == CHOOSE f \in Range(Tree) : rel_path(f) = path

\* str.lower() on the extensions of the tree
lower(ext) == IF ext = ".JS" THEN ".js" ELSE ext

\* os.path.splitext(file_path)[1].lower()
splitext_lower(path) == lower(FileAt(path).ext)

\* What the symbol extractors make of a file's text: raises is TRUE when
\* extract_python_symbols / extract_javascript_symbols raise ValueError
\* (text that is not UTF-8, or Python text that does not parse), and
\* defines is the union of the classes, functions and globals they return.
Content(raises, defines) == [raises |-> raises, defines |-> defines]

\* dir is the directory of f or one above it
Under(dir, f) == Len(dir) <= Len(f.dirs) /\ SubSeq(f.dirs, 1, Len(dir)) = dir

\* The orders in which os.walk, going top-down, can list the given paths:
\* the files below a directory come one after another, those directly in
\* it first; the order among the entries of one directory is arbitrary.
walk_orders(paths) ==
    {w \in [1..Cardinality(paths) -> paths] :
        /\ \A i, j \in DOMAIN w : i # j => w[i] # w[j]
        /\ \A i, j, k \in DOMAIN w :
              i < j /\ j < k =>
                 \A n \in 0..Len(FileAt(w[i]).dirs) :
                    LET dir == SubSeq(FileAt(w[i]).dirs, 1, n)
                    IN  Under(dir, FileAt(w[k])) => Under(dir, FileAt(w[j]))
        /\ \A i, j \in DOMAIN w :
              (/\ Under(FileAt(w[i]).dirs, FileAt(w[j]))
               /\ FileAt(w[i]).dirs # FileAt(w[j]).dirs) => i < j}

\* os.path.exists(os.path.join(root_dir, file_path))
exists(dsk, path) == path \in DOMAIN dsk

----------------------------------------------------------------------------
(* validate_code_inventory: archlib/validation.py.                         *)

\* f"{impl.id}: Missing code file {file_path}"
MissingCodeFile(impl_id, file_path) == Err("missing_code_file", impl_id, file_path)

\* f"{impl.id}: {file_path} missing symbols: {sorted(missing)}"
MissingSymbols(impl_id, file_path, missing) ==
    [kind |-> "missing_symbols", subject |-> impl_id, object |-> file_path,
     cycle |-> <<>>, symbols |-> missing]

\* f"{impl.id}: {file_path} - {e}"
ParseFailure(impl_id, file_path) == Err("parse_failure", impl_id, file_path)

\* f"Undeclared code file: {rel_path} (not in any Implementation)"
UndeclaredCodeFile(path) == Err("undeclared_code_file", "", path)

\* sorted(missing)
sorted(S) == SelectSeq(SymbolOrder, LAMBDA x : x \in S)

\* the concatenation of a sequence of lists
RECURSIVE flatten(_)
flatten(ls) == IF ls = <<>> THEN <<>> ELSE Head(ls) \o flatten(Tail(ls))

\* declared_files: every code_files entry of every Implementation
declared_files(impls) ==
    UNION {Range(impls[i].code_files) : i \in DOMAIN impls}

\* declared_test_files: every test_files entry, and every Goal's
\* acceptance test when goals are passed
declared_test_files(impls, gs) ==
    UNION {Range(impls[i].test_files) : i \in DOMAIN impls}
        \cup {gs[i].acceptance_test : i \in DOMAIN gs}

\* variant: the error lists every required symbol, not the difference
code_file_errors_lists_required(impl, file_path, dsk) ==
    IF ~exists(dsk, file_path)
    THEN <<MissingCodeFile(impl.id, file_path)>>
    ELSE IF file_path \notin DOMAIN impl.must_define
    THEN <<>>
    ELSE LET required_symbols == Range(impl.must_define[file_path])
         IN  IF splitext_lower(file_path) \notin {".py", ".js", ".jsx", ".ts", ".tsx"}
             THEN <<>>
             ELSE IF dsk[file_path].raises
             THEN <<ParseFailure(impl.id, file_path)>>
             ELSE IF required_symbols \ dsk[file_path].defines # {}
             THEN <<MissingSymbols(impl.id, file_path, sorted(required_symbols))>>
             ELSE <<>>

\* variant: the error is appended without testing that missing is non-empty
code_file_errors_always_appends(impl, file_path, dsk) ==
    IF ~exists(dsk, file_path)
    THEN <<MissingCodeFile(impl.id, file_path)>>
    ELSE IF file_path \notin DOMAIN impl.must_define
    THEN <<>>
    ELSE IF splitext_lower(file_path) \notin {".py", ".js", ".jsx", ".ts", ".tsx"}
    THEN <<>>
    ELSE IF dsk[file_path].raises
    THEN <<ParseFailure(impl.id, file_path)>>
    ELSE <<MissingSymbols(impl.id, file_path,
              sorted(Range(impl.must_define[file_path])
                        \ dsk[file_path].defines))>>

\* variant: no `continue` after a missing file, so the extractor is run on
\* the absent path and its ValueError is reported as well
code_file_errors_no_continue(impl, file_path, dsk) ==
    IF ~exists(dsk, file_path)
    THEN <<MissingCodeFile(impl.id, file_path)>> \o
         (IF /\ file_path \in DOMAIN impl.must_define
             /\ splitext_lower(file_path) \in {".py", ".js", ".jsx", ".ts", ".tsx"}
          THEN <<ParseFailure(impl.id, file_path)>>
          ELSE <<>>)
    ELSE IF file_path \notin DOMAIN impl.must_define
    THEN <<>>
    ELSE IF splitext_lower(file_path) \notin {".py", ".js", ".jsx", ".ts", ".tsx"}
    THEN <<>>
    ELSE IF dsk[file_path].raises
    THEN <<ParseFailure(impl.id, file_path)>>
    ELSE LET missing == Range(impl.must_define[file_path])
                           \ dsk[file_path].defines
         IN  IF missing # {}
             THEN <<MissingSymbols(impl.id, file_path, sorted(missing))>>
             ELSE <<>>

\* variant: the extractor is run on every existing code file with a
\* supported extension, named by must_define or not
code_file_errors_parses_every_file(impl, file_path, dsk) ==
    IF ~exists(dsk, file_path)
    THEN <<MissingCodeFile(impl.id, file_path)>>
    ELSE IF splitext_lower(file_path) \notin {".py", ".js", ".jsx", ".ts", ".tsx"}
    THEN <<>>
    ELSE IF dsk[file_path].raises
    THEN <<ParseFailure(impl.id, file_path)>>
    ELSE IF file_path \notin DOMAIN impl.must_define
    THEN <<>>
    ELSE LET missing == Range(impl.must_define[file_path])
                           \ dsk[file_path].defines
         IN  IF missing # {}
             THEN <<MissingSymbols(impl.id, file_path, sorted(missing))>>
             ELSE <<>>

\* one pass of the loop over impl.code_files
code_file_errors(impl, file_path, dsk) ==
    IF ~exists(dsk, file_path)
    THEN <<MissingCodeFile(impl.id, file_path)>>
    ELSE IF file_path \notin DOMAIN impl.must_define
    THEN <<>>
    ELSE LET required_symbols == Range(impl.must_define[file_path])
             ext == splitext_lower(file_path)
         IN  IF ext \notin {".py", ".js", ".jsx", ".ts", ".tsx"}
             THEN <<>>
             ELSE IF dsk[file_path].raises
             THEN <<ParseFailure(impl.id, file_path)>>
             ELSE LET all_actual == dsk[file_path].defines
                      missing == required_symbols \ all_actual
                  IN  IF missing # {}
                      THEN <<MissingSymbols(impl.id, file_path, sorted(missing))>>
                      ELSE <<>>

\* top-down: the errors of the loop over the Implementations
top_down_errors(impls, dsk) ==
    flatten([i \in DOMAIN impls |->
               flatten([k \in DOMAIN impls[i].code_files |->
                          code_file_errors(impls[i], impls[i].code_files[k],
                                           dsk)])])

\* directories os.walk is told not to descend into
pruned_dirs == {".git", "__pycache__", "node_modules", ".venv", "venv", "examples"}

code_extensions == {".py", ".js", ".jsx", ".ts", ".tsx"}

\* the files os.walk yields: those below no pruned directory
walked(lst) ==
    LET fs == [i \in DOMAIN lst |-> FileAt(lst[i])]
    IN  SelectSeq(fs, LAMBDA f : Range(f.dirs) \cap pruned_dirs = {})

\* os.path.abspath(os.path.join(root, file)).split(os.sep)
abs_path_parts(root, f) == <<"">> \o root \o path_parts(f)

\* the test that skips a file as example code
in_examples(root, f) ==
    \/ "examples" \in Range(path_parts(f))
    \/ "examples" \in Range(abs_path_parts(root, f))
    \/ (f.dirs # <<>> /\ f.dirs[1] = "examples")

\* variant: a file is looked up among the declared test files only
undeclared_errors_ignores_code_files(impls, gs, lst, root) ==
    LET found == SelectSeq(walked(lst), LAMBDA f :
                    /\ lower(f.ext) \in code_extensions
                    /\ ~in_examples(root, f)
                    /\ rel_path(f) \notin declared_test_files(impls, gs))
    IN  [i \in DOMAIN found |-> UndeclaredCodeFile(rel_path(found[i]))]

\* variant: a file is looked up among the declared code files only
undeclared_errors_ignores_test_files(impls, gs, lst, root) ==
    LET found == SelectSeq(walked(lst), LAMBDA f :
                    /\ lower(f.ext) \in code_extensions
                    /\ ~in_examples(root, f)
                    /\ rel_path(f) \notin declared_files(impls))
    IN  [i \in DOMAIN found |-> UndeclaredCodeFile(rel_path(found[i]))]

\* bottom-up: the errors of the walk over the project directory
undeclared_errors(impls, gs, lst, root) ==
    LET found == SelectSeq(walked(lst), LAMBDA f :
                    /\ lower(f.ext) \in code_extensions
                    /\ ~in_examples(root, f)
                    /\ rel_path(f) \notin declared_files(impls)
                    /\ rel_path(f) \notin declared_test_files(impls, gs))
    IN  [i \in DOMAIN found |-> UndeclaredCodeFile(rel_path(found[i]))]

validate_code_inventory(impls, gs, dsk, lst, root) ==
    top_down_errors(impls, dsk) \o undeclared_errors(impls, gs, lst, root)

ValidateCodeInventory ==
    /\ called = "none"
    /\ called' = "validate_code_inventory"
    /\ errors' = validate_code_inventory(implementations, goals, disk, listing,
                                         root_abs)
    /\ UNCHANGED <<goals, solutions, implementations, disk, listing, root_abs,
                 outcome, history, source, tree_sitter, extracted>>

----------------------------------------------------------------------------
(* The code inventory check applied to bounded inputs: declared code files *)
(* with required symbols, against files that are missing, unreadable or    *)
(* define some of the symbols.                                             *)

\* most code_files entries over all supplied Implementations together
MaxCodeFilesTotal == 2

\* most files the scanned project directory holds
MaxDiskFiles == 2

\* the Implementation lists of the inventory checks
ImplementationIdLists == {<<>>, <<"I1">>, <<"I1", "I2">>}

\* paths a code_files entry or a must_define key may name
CodePaths == {"mod.py", "src/app.tsx", "data.txt"}

\* the lists of required symbols a must_define entry may hold
RequiredLists == {<<>>, <<"Foo">>, <<"Foo", "Bar">>, <<"Bar", "Bar">>}

\* what a declared code file may hold
Contents == {Content(TRUE, {}), Content(FALSE, {}), Content(FALSE, {"Foo"}),
             Content(FALSE, {"Foo", "Bar"})}

\* n code_files lists holding at most e entries in all
RECURSIVE CodeFilesAllocations(_, _)
CodeFilesAllocations(n, e) ==
    IF n = 0 THEN {<<>>}
    ELSE UNION {{<<l>> \o rest : l \in [1..k -> CodePaths],
                                 rest \in CodeFilesAllocations(n - 1, e - k)} :
                   k \in 0..e}

\* n must_define dicts holding at most one entry in all
MustDefineChoices(n) ==
    {[i \in 1..n |-> <<>>]} \cup
    {[i \in 1..n |-> IF i = j THEN (p :> l) ELSE <<>>] :
        j \in 1..n, p \in CodePaths, l \in RequiredLists}

\* Implementations with code_files and must_define; each declared file is
\* absent from the directory or present with one of the Contents
InitInv ==
    /\ goals = <<>>
    /\ solutions = <<>>
    /\ \E ids \in ImplementationIdLists :
          \E cf \in CodeFilesAllocations(Len(ids), MaxCodeFilesTotal) :
             \E md \in MustDefineChoices(Len(ids)) :
                implementations =
                   [i \in 1..Len(ids) |->
                       Implementation(ids[i], "S1", cf[i], <<>>, md[i])]
    /\ \E present \in SUBSET declared_files(implementations) :
          /\ listing \in walk_orders(present)
          /\ disk \in [present -> Contents]
    /\ root_abs = <<"home", "project">>
    /\ called = "none"
    /\ errors = <<>>
    /\ outcome = "none"
    /\ history = <<>>
    /\ source = NoSource
    /\ tree_sitter = FALSE
    /\ extracted = NoResult

NextInv == ValidateCodeInventory

SpecInv == InitInv /\ [][NextInv]_vars

----------------------------------------------------------------------------
(* The code inventory check applied to scanned project directories; the    *)
(* project may then declare a file it found and run the check again.       *)

\* paths a code_files entry, a test_files entry or an acceptance test names
DeclarablePaths == {"mod.py", "src/Util.JS", "tests/test_mod.py"}

\* the code_files and test_files lists of the scanned projects
DeclaredLists == {<<>>} \cup {<<p>> : p \in DeclarablePaths}

\* absolute paths of the project root, as segments
RootDirs == {<<"home", "project">>, <<"home", "examples", "project">>}

\* what a scanned file holds (the scan never opens a file)
Scanned == Content(FALSE, {})

\* At most one Goal and one Implementation, and a directory holding any
\* MaxDiskFiles files of the tree
InitScan ==
    /\ \E fs \in SUBSET Range(Tree) :
          /\ Cardinality(fs) <= MaxDiskFiles
          /\ disk = [p \in {rel_path(f) : f \in fs} |-> Scanned]
          /\ listing \in walk_orders({rel_path(f) : f \in fs})
    /\ goals \in {<<>>} \cup {<<Goal("G1", t)>> : t \in DeclarablePaths}
    /\ solutions = <<>>
    /\ implementations \in
          {<<>>} \cup {<<Implementation("I1", "S1", cf, tf, <<>>)>> :
                          cf \in DeclaredLists, tf \in DeclaredLists}
    /\ root_abs \in RootDirs
    /\ called = "none"
    /\ errors = <<>>
    /\ outcome = "none"
    /\ history = <<>>
    /\ source = NoSource
    /\ tree_sitter = FALSE
    /\ extracted = NoResult

\* the project adds a file the first run reported as undeclared to an
\* Implementation's code_files
DeclareCodeFile ==
    /\ called = "validate_code_inventory"
    /\ history = <<>>
    /\ \E i \in DOMAIN implementations :
          \E p \in {q \in DOMAIN disk : UndeclaredCodeFile(q) \in Range(errors)} :
             implementations' =
                [implementations EXCEPT ![i].code_files = Append(@, p)]
    /\ history' = Append(history, errors)
    /\ called' = "none"
    /\ errors' = <<>>
    /\ UNCHANGED <<goals, solutions, disk, listing, root_abs, outcome, source,
                   tree_sitter, extracted>>

NextScan == ValidateCodeInventory \/ DeclareCodeFile

SpecScan == InitScan /\ [][NextScan]_vars

----------------------------------------------------------------------------
(* validate_test_inventory: archlib/validation.py.                         *)

\* f"{goal.id}: Missing acceptance test file {goal.acceptance_test}"
MissingAcceptanceTest(goal_id, path) == Err("missing_acceptance_test", goal_id, path)

\* f"{impl.id}: Missing test file {test_file}"
MissingTestFile(impl_id, test_file) == Err("missing_test_file", impl_id, test_file)

\* the loop over the Goals
acceptance_test_errors(gs, dsk) ==
    flatten([i \in DOMAIN gs |->
               IF ~exists(dsk, gs[i].acceptance_test)
               THEN <<MissingAcceptanceTest(gs[i].id, gs[i].acceptance_test)>>
               ELSE <<>>])

\* variant: a test file that exists is opened, and reported if unreadable
test_file_errors_reads_files(impls, dsk) ==
    flatten([i \in DOMAIN impls |->
               flatten([k \in DOMAIN impls[i].test_files |->
                          IF \/ ~exists(dsk, impls[i].test_files[k])
                             \/ dsk[impls[i].test_files[k]].raises
                          THEN <<MissingTestFile(impls[i].id,
                                                 impls[i].test_files[k])>>
                          ELSE <<>>])])

\* the loop over the Implementations and their test_files
test_file_errors(impls, dsk) ==
    flatten([i \in DOMAIN impls |->
               flatten([k \in DOMAIN impls[i].test_files |->
                          IF ~exists(dsk, impls[i].test_files[k])
                          THEN <<MissingTestFile(impls[i].id,
                                                 impls[i].test_files[k])>>
                          ELSE <<>>])])

validate_test_inventory(gs, impls, dsk) ==
    acceptance_test_errors(gs, dsk) \o test_file_errors(impls, dsk)

ValidateTestInventory ==
    /\ called = "none"
    /\ called' = "validate_test_inventory"
    /\ errors' = validate_test_inventory(goals, implementations, disk)
    /\ UNCHANGED <<goals, solutions, implementations, disk, listing, root_abs,
                   outcome, history, source, tree_sitter, extracted>>

----------------------------------------------------------------------------
(* The test inventory check applied to bounded inputs.                     *)

\* most test_files entries over all supplied Implementations together
MaxTestFilesTotal == 2

\* paths an acceptance test or a test_files entry may name
TestPaths == {"tests/test_mod.py", "mod.py"}

\* what a test file may hold: not UTF-8, nothing, one definition
TestContents == {Content(TRUE, {}), Content(FALSE, {}), Content(FALSE, {"Foo"})}

\* n test_files lists holding at most e entries in all
RECURSIVE TestFilesAllocations(_, _)
TestFilesAllocations(n, e) ==
    IF n = 0 THEN {<<>>}
    ELSE UNION {{<<l>> \o rest : l \in [1..k -> TestPaths],
                                 rest \in TestFilesAllocations(n - 1, e - k)} :
                   k \in 0..e}

\* Goals with acceptance tests and Implementations with test_files; each
\* test path is absent from the directory or present with some content
InitTest ==
    /\ \E present \in SUBSET TestPaths :
          /\ listing \in walk_orders(present)
          /\ disk \in [present -> TestContents]
    /\ \E ids \in DistinctSeqs(GoalIds) :
          \E at \in [1..Len(ids) -> TestPaths] :
             goals = [i \in 1..Len(ids) |-> Goal(ids[i], at[i])]
    /\ solutions = <<>>
    /\ \E ids \in ImplementationIdLists :
          \E tf \in TestFilesAllocations(Len(ids), MaxTestFilesTotal) :
             implementations =
                [i \in 1..Len(ids) |->
                    Implementation(ids[i], "S1", <<>>, tf[i], <<>>)]
    /\ root_abs = <<"home", "project">>
    /\ called = "none"
    /\ errors = <<>>
    /\ outcome = "none"
    /\ history = <<>>
    /\ source = NoSource
    /\ tree_sitter = FALSE
    /\ extracted = NoResult

NextTest == ValidateTestInventory

SpecTest == InitTest /\ [][NextTest]_vars

----------------------------------------------------------------------------
(* Architecture.validate: archlib/architecture.py.                         *)

\* variant: the errors are printed and validate goes on to return True
exit_or_return_never_exits(errs) == "True"

\* how validate ends: sys.exit(1) if any error was collected, else True
exit_or_return(errs) == IF errs # <<>> THEN "exit_1" ELSE "True"

\* the lists validate can collect: the four checks in their fixed order
collected_errors(gs, sols, impls, dsk, lst, root) ==
    {validate_traceability(impls, sols, gs)
        \o dep
        \o validate_code_inventory(impls, gs, dsk, lst, root)
        \o validate_test_inventory(gs, impls, dsk) :
     dep \in validate_dependencies(sols)}

\* variant: validate sorts the Solutions by id before checking them
Validate_sorts_solutions ==
    /\ called = "none"
    /\ called' = "validate"
    /\ errors' \in collected_errors(goals, solutions, implementations, disk,
                                     listing, root_abs)
    /\ outcome' = exit_or_return(errors')
    /\ solutions' = IF Len(solutions) = 2 /\ solutions[1].id = "S2"
                    THEN <<solutions[2], solutions[1]>>
                    ELSE solutions
    /\ UNCHANGED <<goals, implementations, disk, listing, root_abs, history,
                   source, tree_sitter, extracted>>

Validate ==
    /\ called = "none"
    /\ called' = "validate"
    /\ errors' \in collected_errors(goals, solutions, implementations, disk,
                                     listing, root_abs)
    /\ outcome' = exit_or_return(errors')
    /\ UNCHANGED <<goals, solutions, implementations, disk, listing, root_abs,
                   history, source, tree_sitter, extracted>>

----------------------------------------------------------------------------
(* Full validation of small projects, run twice.                           *)

\* ids of the Solutions of the fully validated projects
ProjectSolutionIds == {"S1", "S2"}

\* the satisfies and requires lists of their Solutions
ProjectSatisfies == {<<>>, <<"G1">>}

ProjectRequires == {<<>>, <<"S1">>, <<"S2">>}

\* their must_define dicts
ProjectMustDefine == {<<>>, "mod.py" :> <<>>, "mod.py" :> <<"Foo">>}

\* what mod.py may hold
ProjectContents == {Content(TRUE, {}), Content(FALSE, {}), Content(FALSE, {"Foo"})}

\* the other files the project directory may hold
ProjectOtherFiles == {"tests/test_mod.py", "src/Util.JS"}

\* At most one Goal, two Solutions and one Implementation over a
\* directory of at most three files
InitProject ==
    /\ \E others \in SUBSET ProjectOtherFiles :
          \/ /\ disk = [p \in others |-> Scanned]
             /\ listing \in walk_orders(others)
          \/ \E c \in ProjectContents :
                /\ disk = [p \in others \cup {"mod.py"} |->
                             IF p = "mod.py" THEN c ELSE Scanned]
                /\ listing \in walk_orders(others \cup {"mod.py"})
    /\ goals \in {<<>>, <<Goal("G1", "tests/test_mod.py")>>}
    /\ \E ids \in DistinctSeqs(ProjectSolutionIds) :
          \E sat \in [1..Len(ids) -> ProjectSatisfies] :
             \E req \in [1..Len(ids) -> ProjectRequires] :
                solutions = [i \in 1..Len(ids) |->
                               Solution(ids[i], sat[i], req[i])]
    /\ implementations \in
          {<<>>} \cup
          {<<Implementation("I1", sol, cf, tf, md)>> :
              sol \in ProjectSolutionIds,
              cf \in {<<>>, <<"mod.py">>},
              tf \in {<<>>, <<"tests/test_mod.py">>},
              md \in ProjectMustDefine}
    /\ root_abs = <<"home", "project">>
    /\ called = "none"
    /\ errors = <<>>
    /\ outcome = "none"
    /\ history = <<>>
    /\ source = NoSource
    /\ tree_sitter = FALSE
    /\ extracted = NoResult

\* validate has ended, by sys.exit(1) or by returning; the project is
\* validated once more, unchanged (after an exit, in a new interpreter)
Rerun ==
    /\ called = "validate"
    /\ history = <<>>
    /\ history' = Append(history, errors)
    /\ called' = "none"
    /\ errors' = <<>>
    /\ outcome' = "none"
    /\ UNCHANGED <<goals, solutions, implementations, disk, listing, root_abs,
                   source, tree_sitter, extracted>>

NextProject == Validate \/ Rerun

SpecProject == InitProject /\ [][NextProject]_vars

----------------------------------------------------------------------------
(* JavaScript / TypeScript extraction: archlib/parsing/javascript.py.      *)

\* One line of JavaScript text declaring `name`:
\*   class           class name {
\*   class_extends   class name extends Base {
\*   method            name() {}
\*   function        function name() {}
\*   async_function  async function name() {}
\*   const_arrow     const name = () => {};
\*   const_value     const name = 42;
\*   window          window.name = 1;
\*   exports         module.exports = { name: name };
Item(form, name) == [form |-> form, name |-> name]

ItemForms == {"class", "class_extends", "method", "function", "async_function",
              "const_arrow", "const_value", "window", "exports"}

\* the names of the items of the given forms
names_of(items, forms) ==
    {items[i].name : i \in {j \in DOMAIN items : items[j].form \in forms}}

\* re.findall(r"class\s+(\w+)", content)
class_names(items) == names_of(items, {"class", "class_extends"})

\* item j lies in a class chunk: between the end of a match of
\* rf"class\s+{class_name}\s*\{{" and the next occurrence of "class "
in_class_chunk(items, j) ==
    \E i \in 1..(j - 1) :
        /\ items[i].form = "class"
        /\ \A k \in (i + 1)..j : items[k].form \notin {"class", "class_extends"}

\* what the three method patterns capture in the class chunks
method_names(items) ==
    {items[j].name : j \in {k \in DOMAIN items :
        /\ in_class_chunk(items, k)
        /\ items[k].form \in {"method", "function", "async_function",
                               "const_arrow"}}}

\* what the five standalone function patterns capture
function_names(items) ==
    names_of(items, {"function", "async_function", "const_arrow"})

\* What the four global patterns capture.  After "=" the pattern reads
\* \s*(?!function|\(|async): when the value is an arrow function written
\* after a space, \s* backs off to the empty match and the lookahead sees
\* the space, so the name is captured as well.
global_names(items) == names_of(items, {"window", "const_value", "const_arrow"})

\* lines 113-118: what r"(\w+)\s*:" captures in the braces of the first
\* module.exports = {...} that re.search finds
exported_names(items) ==
    LET exports == {j \in DOMAIN items : items[j].form = "exports"}
    IN  IF exports = {} THEN {}
        ELSE {items[CHOOSE j \in exports : \A k \in exports : j <= k].name}

\* the local set `functions` when line 96 copies it into
\* symbols["functions"]
functions_copied(items) == method_names(items) \cup function_names(items)

\* the local set `functions` after line 119; nothing reads it any more
functions_at_return(items) == functions_copied(items) \cup exported_names(items)

\* The returned dict is `symbols`: line 96 updates symbols["functions"]
\* from `functions` before line 119 adds the exported keys to `functions`.
_parse_javascript_with_regex(file) ==
    IF ~file.decodable
    THEN Raised
    ELSE Result("symbols",
                class_names(file.items),
                functions_copied(file.items),
                global_names(file.items))

\* language_map.get(ext, "javascript")
language_of(ext) ==
    CASE ext = ".js" -> "javascript"
      [] ext = ".jsx" -> "javascript"
      [] ext = ".ts" -> "typescript"
      [] ext = ".tsx" -> "tsx"
      [] OTHER -> "javascript"

\* The parser object, or "None": None on ImportError, None for a language
\* outside the map, and None for a language inside it (placeholder).
_init_treesitter_parser(language, installed) ==
    IF ~installed THEN "None"
    ELSE IF language \notin {"javascript", "typescript", "tsx"} THEN "None"
    ELSE "None"

\* variant: with a parser at hand the structural tier returns empty sets
_parse_with_treesitter_empty_result(file, language, installed) ==
    IF installed THEN Result("symbols", {}, {}, {}) ELSE NoResult

_parse_with_treesitter(file, language, installed) ==
    LET parser == _init_treesitter_parser(language, installed)
    IN  IF parser = "None" THEN NoResult ELSE NoResult

extract_javascript_symbols(file, installed) ==
    LET language == language_of(lower(file.ext))
        result == _parse_with_treesitter(file, language, installed)
    IN  IF result # NoResult
        THEN result
        ELSE _parse_javascript_with_regex(file)

ExtractJavascriptSymbols ==
    /\ called = "none"
    /\ called' = "extract_javascript_symbols"
    /\ extracted' = extract_javascript_symbols(source, tree_sitter)
    /\ UNCHANGED <<goals, solutions, implementations, disk, listing, root_abs,
                   errors, outcome, history, source, tree_sitter>>

----------------------------------------------------------------------------
(* The JavaScript extractor applied to bounded files.                      *)

\* most declarations in a file
MaxJsItems == 2

JsExtensions == {".js", ".jsx", ".ts", ".tsx"}

\* A file of up to MaxJsItems declarations of Foo and Bar, readable or
\* not, with the tree_sitter package installed or not
InitJs ==
    /\ goals = <<>>
    /\ solutions = <<>>
    /\ implementations = <<>>
    /\ disk = <<>>
    /\ listing = <<>>
    /\ root_abs = <<"home", "project">>
    /\ called = "none"
    /\ errors = <<>>
    /\ outcome = "none"
    /\ history = <<>>
    /\ \E ext \in JsExtensions, decodable \in BOOLEAN :
          \E items \in SeqsUpTo({Item(f, n) : f \in ItemForms, n \in Symbols},
                                 MaxJsItems) :
             source = SourceFile(ext, decodable, items)
    /\ tree_sitter \in BOOLEAN
    /\ extracted = NoResult

NextJs == ExtractJavascriptSymbols

SpecJs == InitJs /\ [][NextJs]_vars

----------------------------------------------------------------------------
(* Python extraction: archlib/parsing/python.py.                           *)

\* A compound statement that encloses other statements:
\*   if      if True:
\*   with    with open("a") as handle:
\*   try     try: ... except Exception: pass
\*   def / async_def / class      def name(): / async def name(): / class name:
Block(kind, name) == [kind |-> kind, name |-> name]

\* the name of the enclosing definitions
BlockName == "Baz"

Blocks == {Block("if", ""), Block("with", ""), Block("try", ""),
           Block("def", BlockName), Block("async_def", BlockName),
           Block("class", BlockName)}

\* One simple statement of a Python file and the compound statements it is
\* lexically inside, outermost first:
\*   assign            name = 1
\*   ann_assign        name: int = 1
\*   attribute_assign  obj.name = 1
\*   def               def name(): pass
\*   class             class name: pass
\*   syntax_error      a line ast.parse rejects
Stmt(form, name, inside) == [form |-> form, name |-> name, inside |-> inside]

StmtForms == {"assign", "ann_assign", "attribute_assign", "def", "class"}

\* ast.parse(content) raises SyntaxError
unparsable(items) == \E i \in DOMAIN items : items[i].form = "syntax_error"

\* every ClassDef ast.walk(tree) yields
ClassDefs(items) ==
    {items[i].name : i \in {j \in DOMAIN items : items[j].form = "class"}}
    \cup UNION {{b.name : b \in {c \in Range(items[i].inside) : c.kind = "class"}} :
                  i \in DOMAIN items}

\* every FunctionDef and AsyncFunctionDef ast.walk(tree) yields
FunctionDefs(items) ==
    {items[i].name : i \in {j \in DOMAIN items : items[j].form = "def"}}
    \cup UNION {{b.name : b \in {c \in Range(items[i].inside) :
                                    c.kind \in {"def", "async_def"}}} :
                  i \in DOMAIN items}

\* lines 25-35: the node is in tree.body, or the statement of tree.body
\* whose subtree holds it is no function or class definition
is_top_level(stmt) ==
    \/ stmt.inside = <<>>
    \/ stmt.inside[1].kind \notin {"def", "async_def", "class"}

\* lines 37-45: the Name targets of the top-level Assign and AnnAssign nodes
Globals(items) ==
    {items[i].name : i \in {j \in DOMAIN items :
        /\ items[j].form \in {"assign", "ann_assign"}
        /\ is_top_level(items[j])}}

extract_python_symbols(file) ==
    IF ~file.decodable \/ unparsable(file.items)
    THEN Raised
    ELSE Result("symbols", ClassDefs(file.items), FunctionDefs(file.items),
                Globals(file.items))

ExtractPythonSymbols ==
    /\ called = "none"
    /\ called' = "extract_python_symbols"
    /\ extracted' = extract_python_symbols(source)
    /\ UNCHANGED <<goals, solutions, implementations, disk, listing, root_abs,
                   errors, outcome, history, source, tree_sitter>>

----------------------------------------------------------------------------
(* The Python extractor applied to bounded files.                          *)

\* most statements in a file
MaxPyItems == 2

\* most compound statements around one statement
MaxPyDepth == 2

\* the statements a file is made of
Stmts ==
    {Stmt(f, n, inside) : f \in StmtForms, n \in Symbols,
                          inside \in SeqsUpTo(Blocks, MaxPyDepth)}
    \cup {Stmt("syntax_error", "", <<>>)}

\* A .py file of up to MaxPyItems statements naming Foo and Bar, readable
\* or not
InitPy ==
    /\ goals = <<>>
    /\ solutions = <<>>
    /\ implementations = <<>>
    /\ disk = <<>>
    /\ listing = <<>>
    /\ root_abs = <<"home", "project">>
    /\ called = "none"
    /\ errors = <<>>
    /\ outcome = "none"
    /\ history = <<>>
    /\ \E decodable \in BOOLEAN :
          \E items \in SeqsUpTo(Stmts, MaxPyItems) :
             source = SourceFile(".py", decodable, items)
    /\ tree_sitter = FALSE
    /\ extracted = NoResult

NextPy == ExtractPythonSymbols

SpecPy == InitPy /\ [][NextPy]_vars

----------------------------------------------------------------------------
(* The traceability and dependency checks applied to Solution lists in     *)
(* which ids repeat.                                                       *)

\* the ids of the supplied Solutions, in the supplied order
RepeatedIdLists ==
    {<<"S1", "S1">>, <<"S1", "S2">>, <<"S1", "S1", "S2">>, <<"S1", "S2", "S1">>,
     <<"S2", "S1", "S1">>, <<"S1", "S1", "S1">>}

\* the ids a requires entry or an implements may carry
RepeatedIds == {"S1", "S2"}

\* n requires lists over RepeatedIds holding at most e entries in all
RECURSIVE RepeatedRequiresAllocations(_, _)
RepeatedRequiresAllocations(n, e) ==
    IF n = 0 THEN {<<>>}
    ELSE UNION {{<<l>> \o rest : l \in [1..k -> RepeatedIds],
                                 rest \in RepeatedRequiresAllocations(n - 1, e - k)} :
                   k \in 0..e}

\* lists handed to validate_traceability: requires plays no part
InitRepeatedTrace ==
    /\ \E ids \in DistinctSeqs(GoalIds) :
          goals = [i \in 1..Len(ids) |-> Goal(ids[i], "tests/test_mod.py")]
    /\ \E ids \in RepeatedIdLists :
          \E sat \in SatisfiesAllocations(Len(ids), MaxSatisfiesTotal) :
             solutions = [i \in 1..Len(ids) |-> Solution(ids[i], sat[i], <<>>)]
    /\ \E ids \in ImplementationIdLists :
          \E impl \in [1..Len(ids) -> RepeatedIds] :
             implementations =
                [i \in 1..Len(ids) |->
                    Implementation(ids[i], impl[i], <<>>, <<>>, <<>>)]

\* lists handed to validate_dependencies: only requires is read
InitRepeatedDep ==
    /\ goals = <<>>
    /\ implementations = <<>>
    /\ \E ids \in RepeatedIdLists :
          \E reqs \in RepeatedRequiresAllocations(Len(ids), MaxRequiresTotal) :
             solutions = [i \in 1..Len(ids) |-> Solution(ids[i], <<>>, reqs[i])]

InitRepeated ==
    /\ InitRepeatedTrace \/ InitRepeatedDep
    /\ disk = <<>>
    /\ listing = <<>>
    /\ root_abs = <<"home", "project">>
    /\ outcome = "none"
    /\ history = <<>>
    /\ source = NoSource
    /\ tree_sitter = FALSE
    /\ extracted = NoResult
    /\ called = "none"
    /\ errors = <<>>

NextRepeated == ValidateTraceability \/ ValidateDependencies

SpecRepeated == InitRepeated /\ [][NextRepeated]_vars

----------------------------------------------------------------------------
(* The requires relation as a graph, independently of the traversal.       *)

SuppliedIds(sols) == {sols[i].id : i \in DOMAIN sols}

\* the requires relation restricted to the supplied Solutions
RequiresEdges(sols) ==
    UNION {{<<sols[i].id, r>> : r \in Range(sols[i].requires)} : i \in DOMAIN sols}
    \cap (SuppliedIds(sols) \X SuppliedIds(sols))

\* ids reachable from the set S in at most k further steps
RECURSIVE ReachWithin(_, _, _)
ReachWithin(E, S, k) ==
    IF k = 0 THEN S
    ELSE ReachWithin(E, S \cup {e[2] : e \in {f \in E : f[1] \in S}}, k - 1)

Successors(E, n) == {e[2] : e \in {f \in E : f[1] = n}}

OnCycle(sols, n) ==
    n \in ReachWithin(RequiresEdges(sols), Successors(RequiresEdges(sols), n),
                      Cardinality(SuppliedIds(sols)))

HasDirectedCycle(sols) == \E n \in SuppliedIds(sols) : OnCycle(sols, n)

\* the simple cycles, each as the sequence of its ids (closing edge implied)
SimpleCycles(sols) ==
    {p \in DistinctSeqs(SuppliedIds(sols)) :
        /\ Len(p) >= 1
        /\ \A i \in 1..Len(p) : <<p[i], p[(i % Len(p)) + 1]>> \in RequiresEdges(sols)}

CycleNodeSets(sols) == {Range(p) : p \in SimpleCycles(sols)}

CircularErrors == SelectSeq(errors, LAMBDA e : e.kind = "circular")

Count(s, x) == Cardinality({i \in DOMAIN s : s[i] = x})

DepDone == called = "validate_dependencies"

----------------------------------------------------------------------------
(* Claims about validate_dependencies.                                     *)

\* C1: validate_dependencies returns at least one "Circular dependency
\* detected" error if and only if the requires relation restricted to the
\* supplied Solutions has a directed cycle (a self-requirement included); in
\* particular none when every requires list is empty.
C1_CycleErrorIffCycle ==
    DepDone => ((CircularErrors # <<>>) <=> HasDirectedCycle(solutions))

C1_Witness ==
    /\ DepDone
    /\ Len(solutions) = 3
    /\ HasDirectedCycle(solutions)
    /\ \E i \in DOMAIN solutions : ~OnCycle(solutions, solutions[i].id)
    /\ CircularErrors # <<>>

\* C2: when A requires B and B requires A is the only cycle, exactly one
\* Circular dependency error is returned and it names both A and B, in
\* whichever order A and B are supplied.
C2_TwoCycleReportedOnce ==
    DepDone =>
      LET cycles == CycleNodeSets(solutions)
      IN  \A a, b \in SuppliedIds(solutions) :
         (a # b /\ cycles = {{a, b}})
            => /\ Len(CircularErrors) = 1
               /\ {a, b} \subseteq Range(CircularErrors[1].cycle)

C2_Witness ==
    /\ DepDone
    /\ Len(solutions) = 3
    /\ \E a, b \in SuppliedIds(solutions) :
          /\ a # b
          /\ CycleNodeSets(solutions) = {{a, b}}
          /\ solutions[1].id \notin {a, b}
          /\ solutions[2].id = b
          /\ solutions[1].requires = <<a>>
    /\ Len(CircularErrors) = 1

\* C3: when the requires graph contains several pairwise vertex-disjoint
\* cycles, a separate Circular dependency error is returned for each of
\* them, whatever the order of the Solutions and the other edges.
C3_EveryDisjointCycleReported ==
    DepDone =>
      LET cycles == CycleNodeSets(solutions)
      IN  (/\ Cardinality(cycles) >= 2
           /\ \A c, d \in cycles : c # d => c \cap d = {})
            => \E f \in [cycles -> DOMAIN CircularErrors] :
                  /\ \A c, d \in cycles : c # d => f[c] # f[d]
                  /\ \A c \in cycles : c \subseteq Range(CircularErrors[f[c]].cycle)

\* C4: every Circular dependency error lists exactly the path of the cycle:
\* it starts at the revisited Solution, follows requires edges, ends with
\* that same Solution, and holds no Solution that is not on the cycle.
C4_ErrorListsExactCyclePath ==
    DepDone =>
      \A k \in DOMAIN CircularErrors :
         LET c == CircularErrors[k].cycle
         IN  /\ Len(c) >= 2
             /\ c[1] = c[Len(c)]
             /\ \A i \in 1..(Len(c) - 1) : <<c[i], c[i + 1]>> \in RequiresEdges(solutions)
             /\ \A i, j \in 1..(Len(c) - 1) : i # j => c[i] # c[j]

\* the supplied Solutions with every requires entry that is not supplied
\* taken out
StripMissing(sols) ==
    [i \in DOMAIN sols |->
        [sols[i] EXCEPT !.requires =
            SelectSeq(sols[i].requires, LAMBDA r : r \in SuppliedIds(sols))]]

\* C10: every requires entry R of a supplied Solution S whose id is not
\* supplied yields one "S requires R which doesn't exist" error; cycle
\* detection treats R as a leaf: no Circular dependency error names it and
\* the Circular dependency errors are those of the same Solutions without
\* the missing entries.
C10_MissingRequiresReportedAndLeaf ==
    DepDone =>
      /\ \A i \in DOMAIN solutions : \A r \in SolutionIds \ SuppliedIds(solutions) :
            Count(errors, RequiresMissing(solutions[i].id, r))
               = Count(solutions[i].requires, r)
      /\ \A k \in DOMAIN CircularErrors :
            Range(CircularErrors[k].cycle) \subseteq SuppliedIds(solutions)
      /\ \E l \in validate_dependencies(StripMissing(solutions)) :
            CircularErrors = SelectSeq(l, LAMBDA e : e.kind = "circular")

C10_Witness ==
    /\ DepDone
    /\ Len(solutions) = 2
    /\ \E r \in SolutionIds \ SuppliedIds(solutions) :
          /\ Len(solutions[1].requires) = 2
          /\ solutions[1].requires[1] = r
          /\ solutions[1].requires[2] = solutions[2].id
          /\ solutions[2].requires = <<r, solutions[1].id>>
          /\ Count(errors, RequiresMissing(solutions[1].id, r)) = 1
    /\ Len(CircularErrors) = 1

----------------------------------------------------------------------------
(* Claims about validate_traceability.                                     *)

TraceDone == called = "validate_traceability"

SatisfiedBySome(sols, goal_id) ==
    \E i \in DOMAIN sols : goal_id \in Range(sols[i].satisfies)

ImplementedBySome(impls, sol_id) ==
    \E k \in DOMAIN impls : impls[k].implements = sol_id

\* s without its element at position k
RemoveAt(s, k) == [i \in 1..(Len(s) - 1) |-> IF i < k THEN s[i] ELSE s[i + 1]]

\* C5: for every supplied Goal G, exactly one orphaned-goal error is
\* returned for G when no supplied Solution has G in satisfies, and none
\* when at least one has.
C5_OrphanedGoalExactlyOnce ==
    TraceDone =>
      \A i \in DOMAIN goals :
         Count(errors, OrphanedGoal(goals[i].id))
            = IF SatisfiedBySome(solutions, goals[i].id) THEN 0 ELSE 1

C5_Witness ==
    /\ TraceDone
    /\ Len(goals) = 2
    /\ ~SatisfiedBySome(solutions, goals[1].id)
    /\ \E i \in DOMAIN solutions :
          /\ Len(solutions[i].satisfies) = 2
          /\ solutions[i].satisfies[2] = goals[2].id
          /\ ~ImplementedBySome(implementations, solutions[i].id)
    /\ Count(errors, OrphanedGoal(goals[1].id)) = 1
    /\ Count(errors, OrphanedGoal(goals[2].id)) = 0

\* C6: every supplied Solution whose satisfies is empty gets an
\* orphaned-solution error, whether or not an Implementation implements it.
C6_EmptySatisfiesReported ==
    TraceDone =>
      \A i \in DOMAIN solutions :
         solutions[i].satisfies = <<>>
            => Count(errors, OrphanedSolution(solutions[i].id)) >= 1

\* C7: every Goal in a supplied Solution's satisfies whose id is not
\* supplied gets a "satisfies ... which doesn't exist" error, whether or not
\* an Implementation implements the Solution.
C7_MissingGoalReported ==
    TraceDone =>
      \A i \in DOMAIN solutions :
         \A g \in Range(solutions[i].satisfies) \ goal_map(goals) :
            Count(errors, SatisfiesMissing(solutions[i].id, g)) >= 1

\* C8: for every supplied Solution S, exactly one "has no implementation"
\* error is returned for S when no supplied Implementation has
\* implements.id = S.id, and none when at least one has.
C8_UnimplementedExactlyOnce ==
    TraceDone =>
      \A i \in DOMAIN solutions :
         Count(errors, UnimplementedSolution(solutions[i].id))
            = IF ImplementedBySome(implementations, solutions[i].id) THEN 0 ELSE 1

C8_Witness ==
    /\ TraceDone
    /\ Len(solutions) = 3
    /\ Len(implementations) = 2
    /\ implementations[1].implements = solutions[2].id
    /\ implementations[2].implements = solutions[2].id
    /\ Count(errors, UnimplementedSolution(solutions[1].id)) = 1
    /\ Count(errors, UnimplementedSolution(solutions[2].id)) = 0
    /\ Count(errors, UnimplementedSolution(solutions[3].id)) = 1

\* C9: an Implementation whose implements.id is not supplied gets exactly
\* one "implements ... which doesn't exist" error and contributes nothing
\* else: the rest of the returned list is what the check returns without
\* that Implementation (no satisfies check is made through it and it
\* implements no supplied Solution).
C9_MissingImplementsReportedOnly ==
    TraceDone =>
      \A k \in DOMAIN implementations :
         implementations[k].implements \notin SuppliedIds(solutions)
            => LET e == ImplementsMissing(implementations[k].id,
                                          implementations[k].implements)
               IN  /\ Count(errors, e) = 1
                   /\ SelectSeq(errors, LAMBDA x : x # e)
                        = validate_traceability(RemoveAt(implementations, k),
                                                solutions, goals)

C9_Witness ==
    /\ TraceDone
    /\ Len(implementations) = 2
    /\ Len(solutions) = 2
    /\ implementations[1].implements \notin SuppliedIds(solutions)
    /\ implementations[2].implements = solutions[1].id
    /\ Range(solutions[1].satisfies) \ goal_map(goals) # {}
    /\ solutions[2].satisfies = <<>>
    /\ Count(errors, ImplementsMissing(implementations[1].id,
                                       implementations[1].implements)) = 1

----------------------------------------------------------------------------
(* Claims about validate_code_inventory, top-down.                         *)

InvDone == called = "validate_code_inventory"

\* the errors of one kind about one Implementation and one file
ErrorsAbout(errs, kind, impl_id, file_path) ==
    SelectSeq(errs, LAMBDA e : /\ e.kind = kind
                               /\ e.subject = impl_id
                               /\ e.object = file_path)

\* the file can be checked for symbols: it exists, has a supported
\* extension and the extractor returns
SymbolsCheckable(file_path) ==
    /\ file_path \in DOMAIN disk
    /\ lower(FileAt(file_path).ext) \in {".py", ".js", ".jsx", ".ts", ".tsx"}
    /\ ~disk[file_path].raises

\* the file is checked for symbols: it is a code file of the Implementation
\* and can be checked
SymbolsChecked(impl, file_path) ==
    /\ file_path \in Range(impl.code_files)
    /\ SymbolsCheckable(file_path)

\* a "missing symbols" error for the Implementation and the file is
\* returned exactly when some required symbol is not among the extracted
\* ones, and every such error lists exactly the required symbols that are
\* not extracted, each once
DifferenceReported(impl, f) ==
    LET missing == Range(impl.must_define[f]) \ disk[f].defines
        reported == ErrorsAbout(errors, "missing_symbols", impl.id, f)
    IN  /\ (reported # <<>>) <=> (missing # {})
        /\ \A k \in DOMAIN reported :
              /\ Range(reported[k].symbols) = missing
              /\ Len(reported[k].symbols) = Cardinality(missing)

\* C11 as stated: for every Implementation and every must_define entry
\* whose file exists, has a supported extension and parses, a "missing
\* symbols" error for that Implementation and file is returned exactly when
\* some required symbol is not among the extracted ones, and it lists
\* exactly that difference.
C11_MissingSymbolsForEveryEntry ==
    InvDone =>
        \A i \in DOMAIN implementations :
            \A f \in DOMAIN implementations[i].must_define :
                SymbolsCheckable(f) => DifferenceReported(implementations[i], f)

\* C11 amended: for every Implementation and every must_define entry whose
\* file is one of that Implementation's code files, exists, has a supported
\* extension and parses, a "missing symbols" error for that Implementation
\* and file is returned exactly when some required symbol is not among the
\* extracted ones, and every such error lists exactly the required symbols
\* that are not extracted, each once; for a must_define entry whose file is
\* none of that Implementation's code files no such error is returned.
C11_MissingSymbolsIsTheDifference ==
    InvDone =>
        \A i \in DOMAIN implementations :
            \A f \in DOMAIN implementations[i].must_define :
                /\ SymbolsChecked(implementations[i], f)
                      => DifferenceReported(implementations[i], f)
                /\ f \notin Range(implementations[i].code_files)
                      => ErrorsAbout(errors, "missing_symbols",
                                     implementations[i].id, f) = <<>>

\* a file defining Foo only is required to define Foo and Bar, and the
\* error lists Bar alone
C11_Witness ==
    /\ InvDone
    /\ \E i \in DOMAIN implementations :
          \E f \in DOMAIN implementations[i].must_define :
             /\ SymbolsChecked(implementations[i], f)
             /\ Range(implementations[i].must_define[f]) = {"Foo", "Bar"}
             /\ disk[f].defines = {"Foo"}
             /\ ErrorsAbout(errors, "missing_symbols", implementations[i].id, f)
                   = <<MissingSymbols(implementations[i].id, f, <<"Bar">>)>>

\* C12: a must_define entry with an empty list of required symbols never
\* yields a "missing symbols" error for its Implementation and file,
\* whatever the file holds.
C12_EmptyRequiredNeverReported ==
    InvDone =>
        \A i \in DOMAIN implementations :
            \A f \in DOMAIN implementations[i].must_define :
                implementations[i].must_define[f] = <<>> =>
                    ErrorsAbout(errors, "missing_symbols",
                                implementations[i].id, f) = <<>>

\* an existing, parsing code file with an empty required list was checked
C12_Witness ==
    /\ InvDone
    /\ \E i \in DOMAIN implementations :
          \E f \in DOMAIN implementations[i].must_define :
             /\ implementations[i].must_define[f] = <<>>
             /\ SymbolsChecked(implementations[i], f)
             /\ disk[f].defines = {"Foo"}
             /\ errors = <<>>

\* C13: for every Implementation and every code file of it that does not
\* exist, one "Missing code file" error is returned per code_files entry
\* naming the file, and no "missing symbols" or parse-failure error is
\* returned for that Implementation and file, even if must_define names it.
C13_MissingCodeFileReportedAlone ==
    InvDone =>
        \A i \in DOMAIN implementations :
            \A f \in Range(implementations[i].code_files) :
                f \notin DOMAIN disk =>
                    /\ Len(ErrorsAbout(errors, "missing_code_file",
                                       implementations[i].id, f))
                          = Count(implementations[i].code_files, f)
                    /\ ErrorsAbout(errors, "missing_symbols",
                                   implementations[i].id, f) = <<>>
                    /\ ErrorsAbout(errors, "parse_failure",
                                   implementations[i].id, f) = <<>>

\* a code file named by must_define is absent and reported once
C13_Witness ==
    /\ InvDone
    /\ \E i \in DOMAIN implementations :
          \E f \in DOMAIN implementations[i].must_define :
             /\ implementations[i].must_define[f] # <<>>
             /\ Count(implementations[i].code_files, f) = 1
             /\ f \notin DOMAIN disk
             /\ lower(FileAt(f).ext) = ".py"
             /\ errors = <<MissingCodeFile(implementations[i].id, f)>>

----------------------------------------------------------------------------
(* Claims about validate_code_inventory, bottom-up.                        *)

SupportedExtensions == {".py", ".js", ".jsx", ".ts", ".tsx"}

ExcludedDirectories ==
    {".git", "__pycache__", "node_modules", ".venv", "venv", "examples"}

\* the file lies below an excluded directory inside the project root
UnderExcluded(f) == \E k \in DOMAIN f.dirs : f.dirs[k] \in ExcludedDirectories

\* the path is an entry of some Implementation's code_files or test_files
NamedByImplementation(path) ==
    \E i \in DOMAIN implementations :
        \/ \E k \in DOMAIN implementations[i].code_files :
              implementations[i].code_files[k] = path
        \/ \E k \in DOMAIN implementations[i].test_files :
              implementations[i].test_files[k] = path

\* the path is the acceptance test of some supplied Goal
AcceptanceTestOfGoal(path) ==
    \E i \in DOMAIN goals : goals[i].acceptance_test = path

\* a segment of the absolute path of the project root is named examples
RootBelowExamples == \E k \in DOMAIN root_abs : root_abs[k] = "examples"

\* C14 as stated: every file on disk with a supported extension that no
\* Implementation names in code_files or test_files and that lies below no
\* excluded directory inside the root is reported as undeclared, and no
\* file so named or so excluded is reported.
C14_UndeclaredIffUnnamedAndNotExcluded ==
    InvDone =>
        \A path \in DOMAIN disk :
            /\ (/\ FileAt(path).ext \in SupportedExtensions
                /\ ~NamedByImplementation(path)
                /\ ~UnderExcluded(FileAt(path)))
                  => Count(errors, UndeclaredCodeFile(path)) >= 1
            /\ (NamedByImplementation(path) \/ UnderExcluded(FileAt(path)))
                  => Count(errors, UndeclaredCodeFile(path)) = 0

\* C14 amended: a file on disk is reported as undeclared, once, exactly
\* when its extension is supported (compared in lower case), no
\* Implementation names it in code_files or test_files, it is no supplied
\* Goal's acceptance test, it lies below no excluded directory inside the
\* root, and no segment of the root's absolute path is named examples;
\* and nothing but files on disk is reported as undeclared.
C14_UndeclaredIffDeclaredNowhere ==
    InvDone =>
        /\ \A path \in DOMAIN disk :
              Count(errors, UndeclaredCodeFile(path)) =
                 IF /\ lower(FileAt(path).ext) \in SupportedExtensions
                    /\ ~NamedByImplementation(path)
                    /\ ~AcceptanceTestOfGoal(path)
                    /\ ~UnderExcluded(FileAt(path))
                    /\ ~RootBelowExamples
                 THEN 1 ELSE 0
        /\ \A k \in DOMAIN errors :
              errors[k].kind = "undeclared_code_file"
                 => errors[k].object \in DOMAIN disk

\* one file is reported, and a second one, declared only as a Goal's
\* acceptance test, is not
C14_Witness ==
    /\ InvDone
    /\ ~RootBelowExamples
    /\ \E path, test \in DOMAIN disk :
          /\ Count(errors, UndeclaredCodeFile(path)) = 1
          /\ FileAt(test).ext \in SupportedExtensions
          /\ ~UnderExcluded(FileAt(test))
          /\ AcceptanceTestOfGoal(test)
          /\ ~NamedByImplementation(test)
          /\ Count(errors, UndeclaredCodeFile(test)) = 0

\* the path is declared nowhere
DeclaredNowhere(path) ==
    ~NamedByImplementation(path) /\ ~AcceptanceTestOfGoal(path)

\* a run after the project declared a file: a file the earlier run reported
\* and that is now a code file of some Implementation is not reported
DeclaringRemovesError ==
    (InvDone /\ history # <<>>) =>
        \A path \in DOMAIN disk :
            (/\ UndeclaredCodeFile(path) \in Range(history[1])
             /\ path \in declared_files(implementations))
               => Count(errors, UndeclaredCodeFile(path)) = 0

\* C15 as stated: a file with a supported extension outside every excluded
\* directory of the root and declared nowhere gets exactly one "Undeclared
\* code file" error, and once its path is added to an Implementation's
\* code_files the next run returns no such error for it.
C15_ReportedUntilDeclared ==
    /\ (InvDone /\ history = <<>>) =>
          \A path \in DOMAIN disk :
              (/\ lower(FileAt(path).ext) \in SupportedExtensions
               /\ ~UnderExcluded(FileAt(path))
               /\ DeclaredNowhere(path))
                 => Count(errors, UndeclaredCodeFile(path)) = 1
    /\ DeclaringRemovesError

\* C15 amended: the same, for a project root no segment of whose absolute
\* path is named examples.
C15_ReportedUntilDeclaredOutsideExamples ==
    /\ (InvDone /\ history = <<>> /\ ~RootBelowExamples) =>
          \A path \in DOMAIN disk :
              (/\ lower(FileAt(path).ext) \in SupportedExtensions
               /\ ~UnderExcluded(FileAt(path))
               /\ DeclaredNowhere(path))
                 => Count(errors, UndeclaredCodeFile(path)) = 1
    /\ DeclaringRemovesError

\* the first run reported the one file on disk, the project added it to an
\* Implementation's code_files, and the second run returned no error
C15_Witness ==
    /\ InvDone
    /\ Len(history) = 1
    /\ \E path \in DOMAIN disk :
          /\ DOMAIN disk = {path}
          /\ history[1] = <<UndeclaredCodeFile(path)>>
          /\ path \in declared_files(implementations)
          /\ errors = <<>>

----------------------------------------------------------------------------
(* Claims about validate_test_inventory.                                   *)

TestDone == called = "validate_test_inventory"

\* C16: the returned list holds one "Missing acceptance test file" error
\* per Goal whose acceptance test does not exist, one "Missing test file"
\* error per Implementation and test_files entry that does not exist, and
\* nothing else; a test path that exists yields no error whatever the file
\* holds.
C16_OneErrorPerMissingTestPath ==
    TestDone =>
        /\ \A i \in DOMAIN goals :
              Count(errors, MissingAcceptanceTest(goals[i].id,
                                                  goals[i].acceptance_test))
                 = IF goals[i].acceptance_test \in DOMAIN disk THEN 0 ELSE 1
        /\ \A i \in DOMAIN implementations :
              \A path \in Range(implementations[i].test_files) :
                 Count(errors, MissingTestFile(implementations[i].id, path))
                    = IF path \in DOMAIN disk THEN 0
                      ELSE Count(implementations[i].test_files, path)
        /\ \A k \in DOMAIN errors :
              /\ errors[k].object \notin DOMAIN disk
              /\ \/ \E i \in DOMAIN goals :
                       errors[k] = MissingAcceptanceTest(goals[i].id,
                                                         goals[i].acceptance_test)
                 \/ \E i \in DOMAIN implementations :
                       \E path \in Range(implementations[i].test_files) :
                          errors[k] = MissingTestFile(implementations[i].id, path)

\* a missing acceptance test and a missing test file are reported while an
\* unreadable test file that exists is not
C16_Witness ==
    /\ TestDone
    /\ Len(errors) = 2
    /\ \E i \in DOMAIN goals, j \in DOMAIN implementations :
          \E path \in Range(implementations[j].test_files) :
             /\ errors[1] = MissingAcceptanceTest(goals[i].id,
                                                   goals[i].acceptance_test)
             /\ errors[2].kind = "missing_test_file"
             /\ path \in DOMAIN disk
             /\ disk[path].raises

----------------------------------------------------------------------------
(* Claims about Architecture.validate.                                     *)

ValidateDone == called = "validate"

\* invariants 1 to 7: the declared graph is consistent
GraphConsistent ==
    /\ \A i \in DOMAIN implementations :
          implementations[i].implements \in SuppliedIds(solutions)
    /\ \A i \in DOMAIN solutions :
          /\ solutions[i].satisfies # <<>>
          /\ \A g \in Range(solutions[i].satisfies) :
                \E j \in DOMAIN goals : goals[j].id = g
          /\ \E j \in DOMAIN implementations :
                implementations[j].implements = solutions[i].id
          /\ \A r \in Range(solutions[i].requires) : r \in SuppliedIds(solutions)
    /\ \A j \in DOMAIN goals : SatisfiedBySome(solutions, goals[j].id)
    /\ ~HasDirectedCycle(solutions)

\* every declared code, test and acceptance-test file exists
DeclaredFilesExist ==
    /\ \A i \in DOMAIN implementations :
          /\ Range(implementations[i].code_files) \subseteq DOMAIN disk
          /\ Range(implementations[i].test_files) \subseteq DOMAIN disk
    /\ \A j \in DOMAIN goals : goals[j].acceptance_test \in DOMAIN disk

\* every symbol a must_define entry requires is defined in the entry's file
RequiredSymbolsDefined ==
    \A i \in DOMAIN implementations :
        \A f \in DOMAIN implementations[i].must_define :
            \A sym \in Range(implementations[i].must_define[f]) :
                f \in DOMAIN disk /\ sym \in disk[f].defines

\* every code file that must_define names can be parsed
MustDefineFilesParse ==
    \A i \in DOMAIN implementations :
        \A f \in DOMAIN implementations[i].must_define :
            (f \in Range(implementations[i].code_files) /\ f \in DOMAIN disk)
               => ~disk[f].raises

\* no source file under the root is undeclared
NoUndeclaredFile ==
    \A path \in DOMAIN disk :
        \/ lower(FileAt(path).ext) \notin SupportedExtensions
        \/ UnderExcluded(FileAt(path))
        \/ NamedByImplementation(path)
        \/ AcceptanceTestOfGoal(path)

\* some check returns a non-empty list
SomeCheckFails ==
    \/ validate_traceability(implementations, solutions, goals) # <<>>
    \/ \E dep \in validate_dependencies(solutions) : dep # <<>>
    \/ validate_code_inventory(implementations, goals, disk, listing, root_abs)
          # <<>>
    \/ validate_test_inventory(goals, implementations, disk) # <<>>

\* C17 as stated: if the graph is consistent, the declared files exist, the
\* required symbols are defined and no source file is undeclared, validate
\* collects no error and returns True; if some check returns a non-empty
\* list, validate ends the process with exit status 1.
C17_ValidReturnsTrueElseExit ==
    ValidateDone =>
        /\ (/\ GraphConsistent
            /\ DeclaredFilesExist
            /\ RequiredSymbolsDefined
            /\ NoUndeclaredFile) => (errors = <<>> /\ outcome = "True")
        /\ SomeCheckFails => outcome = "exit_1"

\* C17 amended: the same, provided every code file that must_define names
\* parses, also when the entry requires no symbol; and validate returns
\* True only if no check returned an error.
C17_ValidAndParsingReturnsTrueElseExit ==
    ValidateDone =>
        /\ (/\ GraphConsistent
            /\ DeclaredFilesExist
            /\ RequiredSymbolsDefined
            /\ MustDefineFilesParse
            /\ NoUndeclaredFile) => (errors = <<>> /\ outcome = "True")
        /\ SomeCheckFails => outcome = "exit_1"
        /\ outcome = "True" => (errors = <<>> /\ ~SomeCheckFails)

\* a consistent project (a Goal, a Solution satisfying it, an
\* Implementation whose code file defines the required symbol) validated
C17_Witness ==
    /\ ValidateDone
    /\ outcome = "True"
    /\ Len(goals) = 1 /\ Len(solutions) = 1 /\ Len(implementations) = 1
    /\ implementations[1].code_files = <<"mod.py">>
    /\ implementations[1].must_define = ("mod.py" :> <<"Foo">>)
    /\ implementations[1].test_files = <<"tests/test_mod.py">>
    /\ disk["mod.py"].defines = {"Foo"}

\* C18: a second full validation of the same Goals, Solutions and
\* Implementations against the unchanged directory collects the same
\* error list as the first, in content and in order.
C18_RerunCollectsSameErrors ==
    (ValidateDone /\ history # <<>>) => errors = history[1]

\* C19: no step of a validation changes a field of a supplied Goal,
\* Solution or Implementation, the membership or order of the three
\* lists, or the directory.
C19_InputsUnchanged ==
    [][/\ goals' = goals
       /\ solutions' = solutions
       /\ implementations' = implementations
       /\ disk' = disk
       /\ listing' = listing]_vars

\* validate ran over two Solutions supplied in the order S2, S1, a Goal and
\* an Implementation, and collected errors
C19_Witness ==
    /\ ValidateDone
    /\ errors # <<>>
    /\ Len(solutions) = 2 /\ solutions[1].id = "S2"
    /\ goals # <<>>
    /\ implementations # <<>>

----------------------------------------------------------------------------
(* Claims about extract_javascript_symbols.                                *)

JsDone == called = "extract_javascript_symbols"

\* C20: for every .js, .jsx, .ts or .tsx file, with the tree_sitter package
\* installed or not, extract_javascript_symbols hands back exactly what
\* _parse_javascript_with_regex hands back on the file: the structural
\* tier yields no result, and ValueError is raised only when the regex
\* tier raises it (the file cannot be read as UTF-8).
C20_ExtractIsRegexTier ==
    JsDone =>
        /\ _parse_with_treesitter(source, language_of(lower(source.ext)),
                                  tree_sitter) = NoResult
        /\ extracted = _parse_javascript_with_regex(source)
        /\ extracted.status # "none"
        /\ extracted.status = "raised" <=> ~source.decodable

\* with tree_sitter installed, a .tsx file declaring class Foo with a
\* method Bar yields the regex tier's classes and functions
C20_Witness ==
    /\ JsDone
    /\ tree_sitter
    /\ source.ext = ".tsx"
    /\ source.items = <<Item("class", "Foo"), Item("method", "Bar")>>
    /\ extracted = Result("symbols", {"Foo"}, {"Bar"}, {})

----------------------------------------------------------------------------
(* Claims about validate_traceability: repeated reports.                   *)

\* the number of supplied Implementations whose implements carries sol_id
Implementers(impls, sol_id) ==
    Cardinality({k \in DOMAIN impls : impls[k].implements = sol_id})

\* C21: a supplied Solution with empty satisfies that some Implementation
\* implements gets exactly one orphaned-solution error in the returned
\* list, however many Implementations implement it, and no "satisfies ...
\* which doesn't exist" error carries its id.
C21_OrphanedSolutionReportedOnce ==
    TraceDone =>
      \A i \in DOMAIN solutions :
         (/\ solutions[i].satisfies = <<>>
          /\ ImplementedBySome(implementations, solutions[i].id))
            => /\ Count(errors, OrphanedSolution(solutions[i].id)) = 1
               /\ \A e \in Range(errors) :
                     ~(e.kind = "satisfies_missing" /\ e.subject = solutions[i].id)

----------------------------------------------------------------------------
(* Claims about extract_python_symbols.                                    *)

PyDone == called = "extract_python_symbols"

\* the statement is lexically inside a function or class body
InsideDefinition(stmt) ==
    \E k \in DOMAIN stmt.inside : stmt.inside[k].kind \in {"def", "async_def", "class"}

\* the names the file binds by an assignment or annotated assignment that
\* is inside no function or class body
ModuleLevelNames(items) ==
    {items[i].name : i \in {j \in DOMAIN items :
        /\ items[j].form \in {"assign", "ann_assign"}
        /\ ~InsideDefinition(items[j])}}

\* C22: globals holds a name bound by an assignment or annotated
\* assignment if and only if the assignment is lexically inside no function
\* or class body, also when that function or class is itself defined inside
\* a top-level if/with/try block.
C22_GlobalsAreModuleLevelNames ==
    (PyDone /\ extracted.status = "symbols")
       => extracted.globals = ModuleLevelNames(source.items)

----------------------------------------------------------------------------
(* Claims about the module.exports pattern.                                *)

\* C23: every key of a module.exports = {...} mapping literal in the file
\* is a member of the functions set the regex tier (and so
\* extract_javascript_symbols) returns, also when nothing else in the file
\* declares the key as a function.
C23_ExportedKeysAreFunctions ==
    (JsDone /\ extracted.status = "symbols")
       => exported_names(source.items) \subseteq extracted.functions

----------------------------------------------------------------------------
(* Claims about parser failures in validate_code_inventory.                *)

\* the extractor fails on the file: it exists and cannot be decoded or
\* parsed
Malformed(file_path) == file_path \in DOMAIN disk /\ disk[file_path].raises

\* the Implementation asks for the symbols of the file: it is one of its
\* code files, has a supported extension and is a key of its must_define
SymbolsRequested(impl, file_path) ==
    /\ file_path \in Range(impl.code_files)
    /\ lower(FileAt(file_path).ext) \in {".py", ".js", ".jsx", ".ts", ".tsx"}
    /\ file_path \in DOMAIN impl.must_define

\* C24: validate_code_inventory returns its list also when a file cannot be
\* decoded or parsed; the list holds a parse-failure error for an
\* Implementation and a path exactly when the path is an existing code file
\* of that Implementation with a supported extension that its must_define
\* names and the extractor fails on it, so a malformed file that no
\* must_define names yields no parse-failure error.
C24_ParseFailureIffRequestedAndMalformed ==
    InvDone =>
         /\ \A i \in DOMAIN implementations : \A p \in CodePaths :
               (ErrorsAbout(errors, "parse_failure", implementations[i].id, p) # <<>>)
                  <=> (SymbolsRequested(implementations[i], p) /\ Malformed(p))
         /\ \A e \in Range(errors) :
               e.kind = "parse_failure"
                  => \E i \in DOMAIN implementations :
                        /\ e.subject = implementations[i].id
                        /\ e.object \in CodePaths

\* I1 declares two malformed files and asks for the symbols of mod.py
\* only: the one error returned is the parse failure of mod.py
C24_Witness ==
    /\ InvDone
    /\ Len(implementations) = 1
    /\ implementations[1].code_files = <<"src/app.tsx", "mod.py">>
    /\ DOMAIN implementations[1].must_define = {"mod.py"}
    /\ Malformed("mod.py")
    /\ Malformed("src/app.tsx")
    /\ errors = <<ParseFailure("I1", "mod.py")>>

----------------------------------------------------------------------------
(* Claims about Solutions that share an id.                                *)

\* the first ("first") or the last ("last") supplied Solution carrying id
WithId(sols, id, which) ==
    sols[CHOOSE i \in DOMAIN sols :
            /\ sols[i].id = id
            /\ \A j \in DOMAIN sols :
                  (IF which = "first" THEN j < i ELSE j > i) => sols[j].id # id]

\* the supplied list with every Solution replaced by the one its id
\* resolves to
ResolvedTo(sols, which) == [i \in DOMAIN sols |-> WithId(sols, sols[i].id, which)]

\* the number of times x occurs in s
Occurrences(s, x) == Cardinality({i \in DOMAIN s : s[i] = x})

\* The lookups of an id resolve to the first / last Solution carrying it:
\* the satisfies check made through every Implementation reads that
\* Solution's satisfies, and cycle detection follows that Solution's
\* requires.
LookupsResolveTo(which) ==
    /\ TraceDone =>
         \A d \in SuppliedIds(solutions) :
            LET sol_obj == WithId(solutions, d, which)
                n == Implementers(implementations, d)
            IN  /\ Count(errors, OrphanedSolution(d))
                      = IF sol_obj.satisfies = <<>> THEN n ELSE 0
                /\ \A g \in GoalIds :
                      Count(errors, SatisfiesMissing(d, g))
                         = IF g \in goal_map(goals) THEN 0
                           ELSE n * Occurrences(sol_obj.satisfies, g)
    /\ DepDone =>
         ((CircularErrors # <<>>) <=> HasDirectedCycle(ResolvedTo(solutions, which)))

\* C25 as stated: when two supplied Solutions share an id, every lookup of
\* the id by validate_traceability and validate_dependencies resolves to
\* the first of the two in the supplied order.
C25_LookupsResolveToFirst == LookupsResolveTo("first")

\* C25 amended: when two supplied Solutions share an id, every lookup of
\* the id by validate_traceability and validate_dependencies resolves to
\* the last of the two in the supplied order.
C25_LookupsResolveToLast == LookupsResolveTo("last")

\* two Solutions carry S1; the first satisfies a Goal that is not supplied,
\* the last satisfies none; the Implementation of S1 is checked against the
\* last one
C25_Witness ==
    /\ TraceDone
    /\ Len(solutions) = 2
    /\ solutions[1].id = "S1"
    /\ solutions[2].id = "S1"
    /\ solutions[1].satisfies = <<"G1">>
    /\ solutions[2].satisfies = <<>>
    /\ goals = <<>>
    /\ Len(implementations) = 1
    /\ implementations[1].implements = "S1"
    /\ errors = <<OrphanedSolution("S1")>>

=============================================================================
